---- MODULE Spec2Model ----
(***************************************************************************)
(* Model of crypto_data_inject_demo.py: the heuristic row extractor        *)
(* (extract_from_row) and the paginated collection loop (scrape_top_n).    *)
(*                                                                         *)
(* Text is modelled as a sequence of one-character strings, so that        *)
(* lengths, character classes and the regular expressions of the source    *)
(* are computed rather than assumed.  Three values stand for the ways a    *)
(* provider call can end without text: None (text_content returned None),  *)
(* Raise (the call raised) and, for a hint locator, Absent (count() == 0)  *)
(* and CountRaise (count() raised).                                        *)
(***************************************************************************)
EXTENDS Naturals, Integers, Sequences, FiniteSets, TLC

VARIABLES
    pc,            \* position of scrape_top_n
    target_count,  \* argument of scrape_top_n
    results,       \* the accumulated records
    navigations,   \* the loop's counter
    row_count,     \* rows reported for the page being scanned
    rows_ok,       \* FALSE when counting the rows of the page raised
    i,             \* rows of the page already processed
    next_btn,      \* what the page's Next control does when the loop uses it
    clicks,        \* number of next_btn.first.click() calls made (history)
    unscanned,     \* a page was requested and its rows not yet counted (history)
    returned,      \* value returned to the caller
    row,           \* the row handed to extract_from_row
    data,          \* the record extract_from_row returned
    xraised,       \* extract_from_row raised
    xpc            \* "idle" | "called" | "returned": the extractor call

vars == <<pc, target_count, results, navigations, row_count, rows_ok, i,
          next_btn, clicks, unscanned, returned, row, data, xraised, xpc>>

loopVars == <<pc, target_count, results, navigations, row_count, rows_ok, i,
              next_btn, clicks, unscanned, returned>>

-----------------------------------------------------------------------------
(* Characters *)

Digits == {"0", "1", "2", "3", "4", "5", "6", "7", "8", "9"}

UpperCase == {"A", "B", "C", "D", "E", "F", "G", "H", "I", "J", "K", "L", "M",
              "N", "O", "P", "Q", "R", "S", "T", "U", "V", "W", "X", "Y", "Z"}

LowerCase == {"a", "b", "c", "d", "e", "f", "g", "h", "i", "j", "k", "l", "m",
              "n", "o", "p", "q", "r", "s", "t", "u", "v", "w", "x", "y", "z"}

Letters == UpperCase \cup LowerCase

\* \s of the regular expressions
WhiteSpace == {" ", "\n", "\t"}

\* \w of the regular expressions
WordChars == Digits \cup Letters \cup {"_"}

\* the bullet character U+2022 of the split pattern
Bullet == "bullet"

Chars == Digits \cup Letters \cup WhiteSpace
            \cup {"_", "$", "%", "(", ")", ",", ".", "-", Bullet}

None == <<"None">>
Raise == <<"Raise">>
Absent == <<"Absent">>
CountRaise == <<"CountRaise">>

IsString(s) == s \in Seq(Chars)

-----------------------------------------------------------------------------
(* Helpers of the source *)

RECURSIVE DropLeadingSpace(_)
DropLeadingSpace(s) ==
    IF s # <<>> /\ Head(s) \in WhiteSpace THEN DropLeadingSpace(Tail(s)) ELSE s

RECURSIVE DropTrailingSpace(_)
DropTrailingSpace(s) ==
    IF s # <<>> /\ s[Len(s)] \in WhiteSpace
    THEN DropTrailingSpace(SubSeq(s, 1, Len(s) - 1))
    ELSE s

\* str.strip()
Strip(s) == DropTrailingSpace(DropLeadingSpace(s))

\* re.sub(r"\s+", " ", s)
RECURSIVE CollapseSpace(_)
CollapseSpace(s) ==
    IF s = <<>> THEN <<>>
    ELSE IF Head(s) \in WhiteSpace
         THEN <<" ">> \o CollapseSpace(DropLeadingSpace(s))
         ELSE <<Head(s)>> \o CollapseSpace(Tail(s))

clean_text(s) == IF s = None THEN <<>> ELSE Strip(CollapseSpace(s))

\* locator.text_content() inside try/except: the empty string when it raises
safe_text(txt) == IF txt = Raise THEN <<>> ELSE clean_text(txt)

Contains(s, c) == \E k \in 1..Len(s) : s[k] = c

likely_money(s) == s # <<>> /\ Contains(s, "$")

likely_percent(s) == s # <<>> /\ Contains(s, "%")

EmptyData ==
    [rank |-> <<>>, name |-> <<>>, symbol |-> <<>>, price |-> <<>>,
     change_24h |-> <<>>, market_cap |-> <<>>, volume_24h |-> <<>>,
     circulating_supply |-> <<>>]

Fields == {"rank", "name", "symbol", "price", "change_24h", "market_cap",
           "volume_24h", "circulating_supply"}

-----------------------------------------------------------------------------
(* extract_from_row, step by step.  A row is a record                      *)
(*   [td_count_raises, cells, name_hint, sym_hint, price_hint]:            *)
(* cells are the text_content results of the row's td elements (text, None *)
(* or Raise); a hint is the text of the first element its locator finds,   *)
(* or None, Raise, Absent or CountRaise.                                   *)

Min(S) == CHOOSE x \in S : \A y \in S : x <= y

\* lines 86-93: the td texts; an exception while counting leaves none
CollectTds(r) ==
    IF r.td_count_raises THEN <<>>
    ELSE [k \in 1..Len(r.cells) |-> clean_text(safe_text(r.cells[k]))]

\* number of digits t starts with
RECURSIVE DigitRun(_)
DigitRun(t) ==
    IF t # <<>> /\ Head(t) \in Digits THEN 1 + DigitRun(Tail(t)) ELSE 0

\* re.match(r"^\s*(\d{1,4})\b", t): group 1, or <<>> when there is no match
RankMatch(t) ==
    LET u == DropLeadingSpace(t)
        n == DigitRun(u)
    IN  IF n \in 1..4 /\ (n = Len(u) \/ u[n + 1] \notin WordChars)
        THEN SubSeq(u, 1, n)
        ELSE <<>>

\* lines 96-102
RankStep(tds, d) ==
    LET hits == {k \in 1..Len(tds) : k <= 3 /\ RankMatch(tds[k]) # <<>>}
    IN  IF hits = {} THEN d ELSE [d EXCEPT !.rank = RankMatch(tds[Min(hits)])]

\* re.sub(r"[\(\)]", "", s)
RemoveParens(s) == SelectSeq(s, LAMBDA c : c \notin {"(", ")"})

\* lines 108-122, the body of the try block: the record as far as it was
\* filled, and whether a locator call raised
HintsTry(r, d) ==
    IF r.name_hint \in {CountRaise, Raise} THEN [data |-> d, exc |-> TRUE]
    ELSE
      LET name_text == IF r.name_hint = Absent THEN <<>>
                       ELSE clean_text(r.name_hint)
          d1 == IF name_text # <<>> THEN [d EXCEPT !.name = name_text] ELSE d
      IN  IF r.sym_hint \in {CountRaise, Raise} THEN [data |-> d1, exc |-> TRUE]
          ELSE IF r.sym_hint = Absent THEN [data |-> d1, exc |-> FALSE]
          ELSE
            LET sym == RemoveParens(clean_text(r.sym_hint))
            IN  IF 1 < Len(sym) /\ Len(sym) <= 10
                THEN [data |-> [d1 EXCEPT !.symbol = sym], exc |-> FALSE]
                ELSE [data |-> d1, exc |-> FALSE]

\* lines 107-124: except Exception: pass
HintsStep(r, d) == HintsTry(r, d).data

\* length of the whitespace run s starts with
RECURSIVE SpaceRun(_)
SpaceRun(s) ==
    IF s # <<>> /\ Head(s) \in WhiteSpace THEN 1 + SpaceRun(Tail(s)) ELSE 0

\* length of the match of r"\s{2,}|\s?\n\s?|\s<bullet>\s" at the start of s
SepLen(s) ==
    LET w == SpaceRun(s)
    IN  IF w >= 2 THEN w
        ELSE IF s # <<>> /\ Head(s) = "\n" THEN 1
        ELSE IF Len(s) >= 3 /\ s[1] \in WhiteSpace /\ s[2] = Bullet
                /\ s[3] \in WhiteSpace THEN 3
        ELSE 0

\* re.split(r"\s{2,}|\s?\n\s?|\s<bullet>\s", t)
RECURSIVE SplitFrom(_, _)
SplitFrom(s, cur) ==
    IF s = <<>> THEN <<cur>>
    ELSE IF SepLen(s) > 0
         THEN <<cur>> \o SplitFrom(SubSeq(s, SepLen(s) + 1, Len(s)), <<>>)
         ELSE SplitFrom(Tail(s), Append(cur, Head(s)))

SplitParts(t) == SplitFrom(t, <<>>)

\* length of the run of upper-case letters p ends with
RECURSIVE UpperTail(_)
UpperTail(p) ==
    IF p # <<>> /\ p[Len(p)] \in UpperCase
    THEN 1 + UpperTail(SubSeq(p, 1, Len(p) - 1))
    ELSE 0

\* length of the whitespace run p ends with
RECURSIVE SpaceTail(_)
SpaceTail(p) ==
    IF p # <<>> /\ p[Len(p)] \in WhiteSpace
    THEN 1 + SpaceTail(SubSeq(p, 1, Len(p) - 1))
    ELSE 0

\* re.match(r"^(.+?)\s+([A-Z]{2,6})$", p): [ok, g1, g2]
NameSymbolMatch(p) ==
    LET n == UpperTail(p)
        before == SubSeq(p, 1, Len(p) - n)
        w == SpaceTail(before)
        g == IF Len(before) - w >= 1 THEN Len(before) - w ELSE 1
    IN  IF n \in 2..6 /\ w >= 1 /\ g <= Len(before) - 1
           /\ ~Contains(SubSeq(p, 1, g), "\n")
        THEN [ok |-> TRUE, g1 |-> SubSeq(p, 1, g),
              g2 |-> SubSeq(p, Len(p) - n + 1, Len(p))]
        ELSE [ok |-> FALSE, g1 |-> <<>>, g2 |-> <<>>]

\* str.isupper(): a cased character, and none in lower case
IsUpper(p) ==
    /\ \E k \in 1..Len(p) : p[k] \in UpperCase
    /\ \A k \in 1..Len(p) : p[k] \notin LowerCase

\* len(p.split())
WordCount(p) ==
    Cardinality({k \in 1..Len(p) :
        p[k] \notin WhiteSpace /\ (k = 1 \/ p[k - 1] \in WhiteSpace)})

\* lines 135-147 for one part; st = [d, brk], brk after the break of line 142
PartStep(part, st) ==
    LET p == Strip(part)
        d == st.d
        m == NameSymbolMatch(p)
    IN  IF ~(Len(p) > 1 /\ ~likely_money(p) /\ ~likely_percent(p)) THEN st
        ELSE IF m.ok
        THEN [d |-> [d EXCEPT
                       !.name = IF d.name # <<>> THEN d.name ELSE Strip(m.g1),
                       !.symbol = IF d.symbol # <<>> THEN d.symbol
                                  ELSE Strip(m.g2)],
              brk |-> TRUE]
        ELSE IF IsUpper(p) /\ 2 <= Len(p) /\ Len(p) <= 6
        THEN [d |-> [d EXCEPT !.symbol = IF d.symbol # <<>> THEN d.symbol ELSE p],
              brk |-> FALSE]
        ELSE IF WordCount(p) <= 3 /\ d.name = <<>>
        THEN [d |-> [d EXCEPT !.name = p], brk |-> FALSE]
        ELSE st

\* lines 134-147: the parts of one fragment, until the break
RECURSIVE PartsLoop(_, _)
PartsLoop(parts, st) ==
    IF parts = <<>> \/ st.brk THEN st.d
    ELSE PartsLoop(Tail(parts), PartStep(Head(parts), st))

\* lines 128-147: every fragment with a letter
RECURSIVE FragmentsLoop(_, _)
FragmentsLoop(tds, d) ==
    IF tds = <<>> THEN d
    ELSE LET t == Head(tds)
         IN  IF t # <<>> /\ \E k \in 1..Len(t) : t[k] \in Letters
             THEN FragmentsLoop(Tail(tds),
                      PartsLoop(SplitParts(t), [d |-> d, brk |-> FALSE]))
             ELSE FragmentsLoop(Tail(tds), d)

\* lines 127-147
FallbackStep(tds, d) ==
    IF d.name = <<>> \/ d.symbol = <<>> THEN FragmentsLoop(tds, d) ELSE d

\* lines 150-155: the first fragment with a "$" and fewer than 20 characters
PriceFromTds(tds, d) ==
    LET hits == {k \in 1..Len(tds) : Contains(tds[k], "$") /\ Len(tds[k]) < 20}
    IN  IF hits = {} THEN d ELSE [d EXCEPT !.price = tds[Min(hits)]]

\* lines 159-161, the body of the try block
PriceHintTry(r, d) ==
    IF r.price_hint \in {CountRaise, Raise} THEN [data |-> d, exc |-> TRUE]
    ELSE IF r.price_hint = Absent THEN [data |-> d, exc |-> FALSE]
    ELSE [data |-> [d EXCEPT !.price = clean_text(r.price_hint)], exc |-> FALSE]

\* lines 150-163
PriceStep(r, tds, d) ==
    LET d1 == PriceFromTds(tds, d)
    IN  IF d1.price = <<>> THEN PriceHintTry(r, d1).data ELSE d1

\* re.search(r"-?\d+(\.\d+)?%", t): some digit stands right before a "%"
PercentMatch(t) ==
    \E k \in 1..(Len(t) - 1) : t[k] \in Digits /\ t[k + 1] = "%"

\* lines 166-170
ChangeStep(tds, d) ==
    LET hits == {k \in 1..Len(tds) : Contains(tds[k], "%") /\ PercentMatch(tds[k])}
    IN  IF hits = {} THEN d ELSE [d EXCEPT !.change_24h = tds[Min(hits)]]

\* the indices of tds, in order
Indices(tds) == [k \in 1..Len(tds) |-> k]

\* a sort that is not stable: x goes before the elements of its length
RECURSIVE InsertByLen_Unstable(_, _, _)
InsertByLen_Unstable(tds, sorted, x) ==
    IF sorted = <<>> THEN <<x>>
    ELSE IF Len(tds[Head(sorted)]) > Len(tds[x])
         THEN <<Head(sorted)>> \o InsertByLen_Unstable(tds, Tail(sorted), x)
         ELSE <<x>> \o sorted

\* one step of a stable sort by descending length: x goes behind every
\* element that is at least as long
RECURSIVE InsertByLen(_, _, _)
InsertByLen(tds, sorted, x) ==
    IF sorted = <<>> THEN <<x>>
    ELSE IF Len(tds[Head(sorted)]) >= Len(tds[x])
         THEN <<Head(sorted)>> \o InsertByLen(tds, Tail(sorted), x)
         ELSE <<x>> \o sorted

\* sorted(idx, key=len, reverse=True) on the indices idx of tds: Python's
\* sort is stable, also with reverse=True
RECURSIVE SortByLenDesc(_, _)
SortByLenDesc(tds, idx) ==
    IF idx = <<>> THEN <<>>
    ELSE InsertByLen(tds, SortByLenDesc(tds, SubSeq(idx, 1, Len(idx) - 1)),
                     idx[Len(idx)])

\* line 174 and line 177: the candidates' indices, sorted
MarketCapCandidates(tds) ==
    SortByLenDesc(tds, SelectSeq(Indices(tds),
        LAMBDA k : Contains(tds[k], "$") /\ Len(tds[k]) > 6))

\* lines 173-178
MarketCapStep(tds, d) ==
    LET candidates == MarketCapCandidates(tds)
    IN  IF candidates = <<>> THEN d
        ELSE [d EXCEPT !.market_cap = tds[candidates[1]]]

\* lines 182 and 185: the indices of the "$" fragments, sorted
SortedDollars(tds) ==
    SortByLenDesc(tds, SelectSeq(Indices(tds), LAMBDA k : Contains(tds[k], "$")))

\* lines 181-190 with index 0 for index 1
VolumeStep_First(tds, d) ==
    LET sorted_dollars == SortedDollars(tds)
    IN  IF Len(sorted_dollars) >= 2
        THEN [d EXCEPT !.volume_24h = tds[sorted_dollars[1]]]
        ELSE IF Len(sorted_dollars) = 1 THEN [d EXCEPT !.volume_24h = <<>>]
        ELSE d

\* lines 181-190
VolumeStep(tds, d) ==
    LET sorted_dollars == SortedDollars(tds)
    IN  IF Len(sorted_dollars) >= 2
        THEN [d EXCEPT !.volume_24h = tds[sorted_dollars[2]]]
        ELSE IF Len(sorted_dollars) = 1 THEN [d EXCEPT !.volume_24h = <<>>]
        ELSE d

\* re.search(r"\d[\d,\.]*\s*[A-Za-z]{1,6}", t)
SupplyMatch(t) ==
    \E a \in 1..Len(t) : \E b \in (a + 1)..Len(t) :
        /\ t[a] \in Digits
        /\ t[b] \in Letters
        /\ \E m \in a..(b - 1) :
              /\ \A k \in (a + 1)..m : t[k] \in Digits \cup {",", "."}
              /\ \A k \in (m + 1)..(b - 1) : t[k] \in WhiteSpace

\* sub in t
HasSubstring(t, sub) ==
    \E k \in 1..(Len(t) - Len(sub) + 1) : SubSeq(t, k, k + Len(sub) - 1) = sub

MarketCapLabel == <<"M", "a", "r", "k", "e", "t", " ", "C", "a", "p">>

\* lines 193-199
SupplyStep(tds, d) ==
    LET hits == {k \in 1..Len(tds) :
                    /\ tds[k] # <<>>
                    /\ SupplyMatch(tds[k])
                    /\ ~HasSubstring(tds[k], MarketCapLabel)
                    /\ ~Contains(tds[k], "$")}
    IN  [d EXCEPT !.circulating_supply =
                     IF hits = {} THEN <<>> ELSE tds[Min(hits)]]

\* lines 84-199, the body of the outer try block: every call that can raise
\* has its own handler, so no exception leaves it
ExtractBody(r) ==
    LET tds == CollectTds(r)
        d1 == RankStep(tds, EmptyData)
        d2 == HintsStep(r, d1)
        d3 == FallbackStep(tds, d2)
        d4 == PriceStep(r, tds, d3)
        d5 == ChangeStep(tds, d4)
        d6 == MarketCapStep(tds, d5)
        d7 == VolumeStep(tds, d6)
    IN  SupplyStep(tds, d7)

\* lines 205-206
FinalCleanup(d) == [k \in DOMAIN d |-> clean_text(d[k])]

\* a provider call of the row raises
ProviderFails(r) ==
    \/ r.td_count_raises
    \/ \E k \in 1..Len(r.cells) : r.cells[k] = Raise
    \/ r.name_hint \in {CountRaise, Raise}
    \/ r.sym_hint \in {CountRaise, Raise}
    \/ r.price_hint \in {CountRaise, Raise}

\* extract_from_row without its handlers: a failing provider call escapes
extract_from_row_unguarded(r) ==
    IF ProviderFails(r) THEN [data |-> EmptyData, raised |-> TRUE]
    ELSE [data |-> FinalCleanup(ExtractBody(r)), raised |-> FALSE]

\* lines 69-207
extract_from_row(r) ==
    [data |-> FinalCleanup(ExtractBody(r)), raised |-> FALSE]

-----------------------------------------------------------------------------
(* Sample texts of the row provider *)

\* '7'
T_7 == <<"7">>

\* '8'
T_8 == <<"8">>

\* 'Bit BTC'
T_BitBTC == <<"B", "i", "t", " ", "B", "T", "C">>

\* 'Eth ETH'
T_EthETH == <<"E", "t", "h", " ", "E", "T", "H">>

\* '(BTC)'
T_ParenBTC == <<"(", "B", "T", "C", ")">>

\* '$1.00'
T_Price == <<"$", "1", ".", "0", "0">>

\* '$61,234'
T_Cap7a == <<"$", "6", "1", ",", "2", "3", "4">>

\* '$99,999'
T_Cap7b == <<"$", "9", "9", ",", "9", "9", "9">>

\* '$1,205,432'
T_Cap10 == <<"$", "1", ",", "2", "0", "5", ",", "4", "3", "2">>

\* '$1,205,432,112,000.00'
T_Long21 == <<"$", "1", ",", "2", "0", "5", ",", "4", "3", "2", ",", "1", "1", "2", ",", "0", "0", "0", ".", "0", "0">>

\* '-1.5%'
T_Pct == <<"-", "1", ".", "5", "%">>

\* '  Bit \n BTC '
T_RawBit == <<" ", " ", "B", "i", "t", " ", "\n", " ", "B", "T", "C", " ">>

\* 'Bit'
T_Bit == <<"B", "i", "t">>

\* 'BTC'
T_BTC == <<"B", "T", "C">>

\* '(B )'
T_ParenB == <<"(", "B", " ", ")">>

\* 'ABCDEFGHIJK'
T_Sym11 == <<"A", "B", "C", "D", "E", "F", "G", "H", "I", "J", "K">>

\* '$2.00'
T_Price2 == <<"$", "2", ".", "0", "0">>

-----------------------------------------------------------------------------
(* Bounds and inputs *)

\* most td cells of a row handed to the extractor on its own
MaxCells == 3

\* largest target_count tried
MaxTarget == 3

\* most rows the provider reports for one page
MaxRows == 2

\* line 33
MAX_PAGE_NAVIGATIONS == 5

\* what one td's text_content can give
Fragments == {T_7, T_BitBTC, T_ParenBTC, T_Price, T_Cap7a, T_Cap7b, T_Cap10,
              T_Pct, T_RawBit, Raise}

CellLists == UNION {[1..n -> Fragments] : n \in 0..MaxCells}

NoHints(c) ==
    [td_count_raises |-> FALSE, cells |-> c, name_hint |-> Absent,
     sym_hint |-> Absent, price_hint |-> Absent]

HintCellLists == {<<>>, <<T_7, T_BitBTC, T_Price>>, <<T_ParenBTC>>, <<T_Long21, None>>}

NameHints == {Absent, CountRaise, Raise, None, T_Bit}

SymHints == {Absent, CountRaise, Raise, T_BTC, T_ParenBTC, T_ParenB, T_Sym11}

PriceHints == {Absent, Raise, None, T_Price2}

\* the rows extract_from_row is tried on
RowInputs ==
    {NoHints(c) : c \in CellLists}
    \cup [td_count_raises : BOOLEAN, cells : HintCellLists,
          name_hint : NameHints, sym_hint : SymHints, price_hint : PriceHints]

\* the rows the pages of the collection loop are made of
LoopRows ==
    {NoHints(<<T_7, T_BitBTC, T_Price>>),
     NoHints(<<T_8, T_EthETH, T_Price>>),
     NoHints(<<T_7, T_EthETH>>),
     NoHints(<<T_BitBTC>>),
     NoHints(<<T_Pct>>),
     NoHints(<<T_Price>>),
     [NoHints(<<T_8, T_BitBTC>>) EXCEPT !.td_count_raises = TRUE]}

NoRow == NoHints(<<>>)

\* what extract_from_row returns for each of these rows (line 258)
Extracted == [r \in LoopRows |-> extract_from_row(r)]

-----------------------------------------------------------------------------
(* scrape_top_n *)

Init ==
    /\ pc = "launch"
    /\ target_count \in 1..MaxTarget
    /\ results = <<>>
    /\ navigations = 0
    /\ row_count = 0
    /\ rows_ok = TRUE
    /\ i = 0
    /\ next_btn = "none"
    /\ clicks = 0
    /\ unscanned = FALSE
    /\ returned = <<>>
    /\ row = NoRow
    /\ data = EmptyData
    /\ xraised = FALSE
    /\ xpc = "idle"

\* results[:target_count]
Trim(rs) == SubSeq(rs, 1, IF Len(rs) < target_count THEN Len(rs) ELSE target_count)

\* lines 216-219: outside every try block, a failure leaves scrape_top_n
Launch ==
    /\ pc = "launch"
    /\ \E ok \in BOOLEAN : pc' = IF ok THEN "open" ELSE "raised"
    /\ UNCHANGED <<target_count, results, navigations, row_count, rows_ok, i,
                   next_btn, clicks, unscanned, returned, row, data, xraised, xpc>>

\* lines 221-232
Open ==
    /\ pc = "open"
    /\ \E outcome \in {"ok", "timeout", "error"} :
          IF outcome = "error"
          THEN pc' = "done" /\ returned' = results
          ELSE pc' = "loop" /\ returned' = returned
    /\ UNCHANGED <<target_count, results, navigations, row_count, rows_ok, i,
                   next_btn, clicks, unscanned, row, data, xraised, xpc>>

\* the while condition with <= for <
LoopTest_OffByOne ==
    /\ pc = "loop"
    /\ IF Len(results) < target_count /\ navigations <= MAX_PAGE_NAVIGATIONS
       THEN /\ navigations' = navigations + 1
            /\ pc' = "count_rows"
            /\ returned' = returned
       ELSE /\ navigations' = navigations
            /\ pc' = "done"
            /\ returned' = Trim(results)
    /\ UNCHANGED <<target_count, results, row_count, rows_ok, i, next_btn,
                   clicks, unscanned, row, data, xraised, xpc>>

\* lines 234-236, and lines 293-296 when the condition fails
LoopTest ==
    /\ pc = "loop"
    /\ IF Len(results) < target_count /\ navigations < MAX_PAGE_NAVIGATIONS
       THEN /\ navigations' = navigations + 1
            /\ pc' = "count_rows"
            /\ returned' = returned
       ELSE /\ navigations' = navigations
            /\ pc' = "done"
            /\ returned' = Trim(results)
    /\ UNCHANGED <<target_count, results, row_count, rows_ok, i, next_btn,
                   clicks, unscanned, row, data, xraised, xpc>>

\* how lines 278-283 end on a page: the page, with its Next control, is
\* what the provider shows when its rows are counted
PaginationOutcomes ==
    {"count_raises", "absent", "enabled_raises", "disabled", "click_raises",
     "wait_raises", "ok"}

\* the outcomes in which next_btn.first.click() was called
Clicked == {"click_raises", "wait_raises", "ok"}

\* the outcomes in which a call of lines 278-283 raised
PaginationFailures ==
    {"count_raises", "enabled_raises", "click_raises", "wait_raises"}

\* lines 238-245
CountRows ==
    /\ pc = "count_rows"
    /\ \E ok \in BOOLEAN : \E n \in 0..MaxRows :
          /\ rows_ok' = ok
          /\ row_count' = IF ok THEN n ELSE 0
    /\ next_btn' \in PaginationOutcomes
    /\ i' = 0
    /\ unscanned' = FALSE
    /\ pc' = "scan"
    /\ UNCHANGED <<target_count, results, navigations, clicks, returned, row,
                   data, xraised, xpc>>

\* the record is not appended: without the comparison of names
Rejected_NoNameDedup(d, rs) ==
    \/ d.name = <<>> /\ d.price = <<>> /\ d.rank = <<>>
    \/ d.rank # <<>> /\ \E k \in 1..Len(rs) : rs[k].rank = d.rank

\* the record is not appended: without the validation of line 260
Rejected_NoGate(d, rs) ==
    \/ d.rank # <<>> /\ \E k \in 1..Len(rs) : rs[k].rank = d.rank
    \/ d.name # <<>> /\ \E k \in 1..Len(rs) : rs[k].name = d.name

\* lines 260-267: the record is not appended
Rejected(d, rs) ==
    \/ d.name = <<>> /\ d.price = <<>> /\ d.rank = <<>>
    \/ d.rank # <<>> /\ \E k \in 1..Len(rs) : rs[k].rank = d.rank
    \/ d.name # <<>> /\ \E k \in 1..Len(rs) : rs[k].name = d.name

\* lines 247-273, one iteration of the for loop
ScanRow ==
    /\ pc = "scan"
    /\ i < row_count
    /\ Len(results) < target_count
    /\ \E r \in LoopRows :
          LET x == Extracted[r]
          IN  /\ row' = r
              /\ xraised' = x.raised
              /\ data' = IF x.raised THEN data ELSE x.data
              /\ results' = IF x.raised \/ Rejected(x.data, results)
                            THEN results
                            ELSE Append(results, x.data)
    /\ xpc' = "returned"
    /\ i' = i + 1
    /\ UNCHANGED <<pc, target_count, navigations, row_count, rows_ok, next_btn,
                   clicks, unscanned, returned>>

\* lines 247-249: the for loop ends or breaks
EndScan ==
    /\ pc = "scan"
    /\ i >= row_count \/ Len(results) >= target_count
    /\ pc' = "paginate"
    /\ UNCHANGED <<target_count, results, navigations, row_count, rows_ok, i,
                   next_btn, clicks, unscanned, returned, row, data, xraised, xpc>>

\* lines 276-291 with a break added for a page without rows
Paginate_StopOnEmpty ==
    /\ pc = "paginate"
    /\ Len(results) < target_count
    /\ LET o == IF row_count = 0 THEN "absent" ELSE next_btn
       IN  /\ clicks' = IF o \in Clicked THEN clicks + 1 ELSE clicks
           /\ unscanned' = IF o = "ok" THEN TRUE ELSE unscanned
           /\ IF o = "ok"
              THEN pc' = "loop" /\ returned' = returned
              ELSE pc' = "done" /\ returned' = Trim(results)
    /\ UNCHANGED <<target_count, results, navigations, row_count, rows_ok, i,
                   next_btn, row, data, xraised, xpc>>

\* lines 276-291 without the handler of lines 289-291
Paginate_Unguarded ==
    /\ pc = "paginate"
    /\ Len(results) < target_count
    /\ clicks' = IF next_btn \in Clicked THEN clicks + 1 ELSE clicks
    /\ unscanned' = IF next_btn = "ok" THEN TRUE ELSE unscanned
    /\ IF next_btn = "ok" THEN pc' = "loop" /\ returned' = returned
       ELSE IF next_btn \in PaginationFailures
       THEN pc' = "raised" /\ returned' = returned
       ELSE pc' = "done" /\ returned' = Trim(results)
    /\ UNCHANGED <<target_count, results, navigations, row_count, rows_ok, i,
                   next_btn, row, data, xraised, xpc>>

\* lines 276-291 when len(results) < target_count
Paginate ==
    /\ pc = "paginate"
    /\ Len(results) < target_count
    /\ clicks' = IF next_btn \in Clicked THEN clicks + 1 ELSE clicks
    /\ unscanned' = IF next_btn = "ok" THEN TRUE ELSE unscanned
    /\ IF next_btn = "ok"
       THEN pc' = "loop" /\ returned' = returned
       ELSE pc' = "done" /\ returned' = Trim(results)
    /\ UNCHANGED <<target_count, results, navigations, row_count, rows_ok, i,
                   next_btn, row, data, xraised, xpc>>

\* line 276 when the target is reached: back to the while condition
SkipPaginate ==
    /\ pc = "paginate"
    /\ Len(results) >= target_count
    /\ pc' = "loop"
    /\ UNCHANGED <<target_count, results, navigations, row_count, rows_ok, i,
                   next_btn, clicks, unscanned, returned, row, data, xraised, xpc>>

Next ==
    \/ Launch
    \/ Open
    \/ LoopTest
    \/ CountRows
    \/ ScanRow
    \/ EndScan
    \/ Paginate
    \/ SkipPaginate

Spec == Init /\ [][Next]_vars

\* every awaited call of the loop is bounded by a timeout, so the loop
\* always takes its next step
FairSpec == Spec /\ WF_vars(Next)

-----------------------------------------------------------------------------
(* extract_from_row on its own, over RowInputs *)

ExtractInit ==
    /\ pc = "launch"
    /\ target_count = 1
    /\ results = <<>>
    /\ navigations = 0
    /\ row_count = 0
    /\ rows_ok = TRUE
    /\ i = 0
    /\ next_btn = "none"
    /\ clicks = 0
    /\ unscanned = FALSE
    /\ returned = <<>>
    /\ row \in RowInputs
    /\ data = EmptyData
    /\ xraised = FALSE
    /\ xpc = "called"

Extract ==
    /\ xpc = "called"
    /\ LET x == extract_from_row(row)
       IN  /\ data' = x.data
           /\ xraised' = x.raised
    /\ xpc' = "returned"
    /\ UNCHANGED <<loopVars, row>>

ExtractNext == Extract

ExtractSpec == ExtractInit /\ [][ExtractNext]_vars

-----------------------------------------------------------------------------
(* Properties of the collection loop *)

\* the record duplicates the rank or the name of an accumulated one
Duplicates(d, rs) ==
    \E k \in 1..Len(rs) :
        \/ d.rank # <<>> /\ rs[k].rank = d.rank
        \/ d.name # <<>> /\ rs[k].name = d.name

\* C1: in every state of the loop no two accumulated records share a
\* non-empty rank and no two share a non-empty name; a scanned row whose
\* record duplicates the rank or name of an accumulated one leaves the
\* results unchanged and the loop goes on with the next row, without error.
C1_Dedup ==
    /\ [](\A a, b \in 1..Len(results) :
             a # b =>
               /\ results[a].rank = <<>> \/ results[a].rank # results[b].rank
               /\ results[a].name = <<>> \/ results[a].name # results[b].name)
    /\ [][(i' = i + 1 /\ ~xraised' /\ Duplicates(data', results))
             => (results' = results /\ pc' = "scan")]_vars

\* a row that repeats the name of an accumulated record under another rank
\* has been scanned and was not appended
C1_Witness ==
    /\ pc = "scan"
    /\ xpc = "returned"
    /\ \E k \in 1..Len(results) :
          data.name # <<>> /\ results[k].name = data.name
          /\ results[k].rank # data.rank
    /\ \A k \in 1..Len(results) : results[k] # data

\* C2: no accumulated record has rank, name and price all empty, and a
\* scanned row whose record has all three empty leaves the results unchanged,
\* whatever its other fields hold.
C2_Gate ==
    /\ [](\A k \in 1..Len(results) :
             ~(results[k].rank = <<>> /\ results[k].name = <<>>
                 /\ results[k].price = <<>>))
    /\ [][(i' = i + 1 /\ data'.rank = <<>> /\ data'.name = <<>>
             /\ data'.price = <<>>) => results' = results]_vars

\* a row with a 24h change but no rank, name or price has been scanned while
\* results were accumulated
C2_Witness ==
    /\ xpc = "returned"
    /\ data.rank = <<>> /\ data.name = <<>> /\ data.price = <<>>
    /\ data.change_24h # <<>>
    /\ results # <<>>
    /\ i > 0

\* C3: the loop terminates, the accumulated results never exceed
\* target_count records and Next is never clicked more than
\* MAX_PAGE_NAVIGATIONS times, whatever the provider does.
C3_Termination ==
    /\ [](Len(results) <= target_count /\ clicks <= MAX_PAGE_NAVIGATIONS)
    /\ <>(pc \in {"done", "raised"})

\* the loop has ended after MAX_PAGE_NAVIGATIONS clicks of an always enabled
\* Next, with a full page scanned and fewer records than asked for
C3_Witness ==
    /\ pc = "done"
    /\ clicks = MAX_PAGE_NAVIGATIONS
    /\ navigations = MAX_PAGE_NAVIGATIONS
    /\ i = MaxRows
    /\ Len(results) < target_count

C5_RequestsAreScanned ==
    /\ navigations = 0
    /\ [][clicks' # clicks => navigations < MAX_PAGE_NAVIGATIONS]_vars
    /\ [](pc = "done" => ~unscanned)

-----------------------------------------------------------------------------
(* Properties of extract_from_row *)

\* the texts of the row's cells that were retrieved
Retrieved(r) ==
    IF r.td_count_raises THEN {}
    ELSE {r.cells[k] : k \in 1..Len(r.cells)} \ {Raise, None}

\* a hint that yields no text
NoText == {Absent, CountRaise, Raise, None}

\* C7: extract_from_row never raises; it returns a record of exactly the
\* eight fields, each a string; a field none of whose sources was retrieved
\* or could match is the empty string.
C7_NeverRaises ==
    xpc = "returned" =>
      /\ ~xraised
      /\ DOMAIN data = Fields
      /\ \A f \in Fields : IsString(data[f])
      /\ (\A t \in Retrieved(row) : \A k \in 1..Len(t) : t[k] \notin Digits)
            => (data.rank = <<>> /\ data.circulating_supply = <<>>)
      /\ (\A t \in Retrieved(row) : ~Contains(t, "$"))
            => (data.market_cap = <<>> /\ data.volume_24h = <<>>)
      /\ (\A t \in Retrieved(row) : ~Contains(t, "%"))
            => data.change_24h = <<>>
      /\ ((\A t \in Retrieved(row) : ~Contains(t, "$"))
             /\ row.price_hint \in NoText)
            => data.price = <<>>
      /\ ((\A t \in Retrieved(row) : \A k \in 1..Len(t) : t[k] \notin Letters)
             /\ row.name_hint \in NoText)
            => data.name = <<>>
      /\ ((\A t \in Retrieved(row) : \A k \in 1..Len(t) : t[k] \notin Letters)
             /\ (row.sym_hint \in NoText \/ row.name_hint \in {CountRaise, Raise}))
            => data.symbol = <<>>

\* a row whose td count raised and whose symbol locator raised gave a record
\* with the name of the name hint and nothing else
C7_Witness ==
    /\ xpc = "returned"
    /\ row.td_count_raises
    /\ row.cells # <<>>
    /\ row.sym_hint = CountRaise
    /\ row.price_hint = Raise
    /\ data = [EmptyData EXCEPT !.name = T_Bit]

\* the text stands in parentheses
Enclosed(t) == Len(t) >= 2 /\ t[1] = "(" /\ t[Len(t)] = ")"

\* C8: the symbol of the returned record is empty, or has 2 to 10
\* characters and does not stand in parentheses.
C8_SymbolShape ==
    xpc = "returned" =>
      \/ data.symbol = <<>>
      \/ Len(data.symbol) \in 2..10 /\ ~Enclosed(data.symbol)

\* the fragments of the row, as the extractor sees them
Tds == CollectTds(row)

\* the indices of the fragments with a "$"
Dollars == {k \in 1..Len(Tds) : Contains(Tds[k], "$")}

\* fragment a comes before fragment b by descending length, the earlier
\* first among equal lengths
Before(a, b) ==
    \/ Len(Tds[a]) > Len(Tds[b])
    \/ Len(Tds[a]) = Len(Tds[b]) /\ a < b

\* the index in S that n others of S come before
Ranked(S, n) ==
    CHOOSE k \in S : Cardinality({j \in S : Before(j, k)}) = n

\* C9 as stated: when the row has a fragment with a "$", market_cap is the
\* longest of them, the first of that length; when it has none, market_cap
\* is empty.
C9_LongestDollar ==
    xpc = "returned" =>
      data.market_cap = IF Dollars = {} THEN <<>> ELSE Tds[Ranked(Dollars, 0)]

\* C9 amended: when the row has a fragment with a "$" and more than 6
\* characters, market_cap is the longest fragment with a "$", the first of
\* that length; otherwise market_cap is empty.
C9_LongestDollarOver6 ==
    xpc = "returned" =>
      data.market_cap = IF \E k \in Dollars : Len(Tds[k]) > 6
                        THEN Tds[Ranked(Dollars, 0)]
                        ELSE <<>>

\* a row with two longest "$" fragments of the same length and different
\* text, the first of which became the market cap
C9_Witness ==
    /\ xpc = "returned"
    /\ \E a, b \in Dollars :
          /\ a < b
          /\ Len(Tds[a]) = Len(Tds[b])
          /\ Tds[a] # Tds[b]
          /\ \A k \in Dollars : Len(Tds[k]) <= Len(Tds[a])
          /\ \A k \in Dollars : Len(Tds[k]) = Len(Tds[a]) => k >= a
          /\ data.market_cap = Tds[a]

\* C10: volume_24h is empty when the row has no or one fragment with a "$",
\* and otherwise is the second of these fragments by descending length, the
\* earlier first among equal lengths; when market_cap and volume_24h are both
\* non-empty they are the texts of two different cells and volume_24h is not
\* longer than market_cap.
C10_SecondDollar ==
    xpc = "returned" =>
      /\ data.volume_24h = IF Cardinality(Dollars) <= 1 THEN <<>>
                           ELSE Tds[Ranked(Dollars, 1)]
      /\ (data.market_cap # <<>> /\ data.volume_24h # <<>>) =>
            /\ data.market_cap = Tds[Ranked(Dollars, 0)]
            /\ data.volume_24h = Tds[Ranked(Dollars, 1)]
            /\ Ranked(Dollars, 0) # Ranked(Dollars, 1)
            /\ Len(data.volume_24h) <= Len(data.market_cap)

\* a row with three "$" fragments, the longest last and the other two of one
\* length: the volume is the first of the two
C10_Witness ==
    /\ xpc = "returned"
    /\ Cardinality(Dollars) = 3
    /\ data.market_cap = Tds[3]
    /\ data.volume_24h = Tds[1]
    /\ Tds[1] # Tds[2]
    /\ Len(Tds[1]) = Len(Tds[2])
    /\ Len(Tds[3]) > Len(Tds[1])

====
